---- MODULE Spec2Model ----
(***************************************************************************)
(* Model of the SAIJ crawl controller of src/scrapper.py: the rate         *)
(* limiters, the retry decorator, get_urls / scrape_data, enforce_schema   *)
(* and the two phases of main (URL discovery, document collection).        *)
(*                                                                         *)
(* Representation notes                                                    *)
(*  - a URL "friendly/uuid" is the sequence of its path segments           *)
(*    <<friendly, uuid>>; url.split("/")[-1] is its last segment.          *)
(*  - a float that the code only multiplies by constants is kept exactly:  *)
(*    RateLimiter.backoff_factor = 1.4 * 2^n is stored as n, and the       *)
(*    AdaptiveRateLimiter delay as a reduced fraction [n, d].              *)
(*  - JSON values are tagged: [t |-> "null"], [t |-> "str", v |-> s],      *)
(*    [t |-> "list", v |-> <<...>>], [t |-> "dict", v |-> function].       *)
(***************************************************************************)
EXTENDS Integers, Sequences, FiniteSets, TLC

VARIABLES
    rate_limiter,   \* the RateLimiter object shared by get_urls and scrape_data
    clock,          \* datetime.now(), in whole seconds
    wait_pc,        \* position inside RateLimiter.wait(): "idle" | "loop"
    wait_now,       \* wait()'s local `now`
    wait_backoff,   \* wait()'s local `backoff`, as the number of times it was multiplied
    correct_schema, \* the module-level template dict (shared, mutable)
    schema_in,      \* enforce_schema driven on its own: the argument
    schema_out,     \* ... and its outcome [raised, value]
    schema_pc,      \* ... "idle" | "called" | "returned" | "raised"
    retry_args,     \* the decorator arguments [max_retries, delay] of the wrapper in progress
    attempt,        \* the wrapper's loop variable
    retry_pc,       \* "idle" | "enter" | "attempting" | "returned" | "raised"
    retry_result,   \* what the wrapper returned or raised
    sleeps,         \* history: the wrapper's asyncio.sleep durations, in order
    invocations,    \* history: how often the wrapper called the wrapped function
    last_outcome,   \* history: the outcome of the latest call of the wrapped function
    pc,             \* position in main
    exception,      \* the exception that ended main, "" while there is none
    args,           \* the command line: [update, data, amount]
    urls_file,      \* the URL log [exists, lines]
    dataset_file,   \* the dataset log [exists, lines]
    existing_urls,  \* main's local sets and cursors
    all_urls,
    year,
    offset,
    existing_guids,
    urls_to_scrape,
    url_index,      \* position of the `for url in urls_to_scrape` loop
    reset_calls,    \* history: reset_on_error calls made during the wrapper call in progress
    failed_fetches, \* history: failing responses served so far
    dataset0,       \* history: the dataset log when the run started
    resume,         \* history: where an earlier run was interrupted, and the pages asked again
    stale_page_seen,\* history: some discovery page so far brought no new URL
    last_page,      \* history: the latest discovery request and what main did with it
    last_fetch,     \* history: the latest completed scrape_data call
    crawl_args,     \* provincial.py: the command line [year, stop], stop 0 when not given
    crawl_pc,       \* provincial.py: "idle" | "page" | "quit" | "crashed"
    crawl_year,     \* provincial.py: the module variable `year`
    crawl_page,     \* provincial.py: the result page the driver shows, counted within its year
    shown_year,     \* provincial.py: the year of the listing the driver shows
    navigated       \* history: the years the driver was sent to, in order

rlvars == <<rate_limiter, clock, wait_pc, wait_now, wait_backoff>>

schemavars == <<correct_schema, schema_in, schema_out, schema_pc>>

retryvars == <<retry_args, attempt, retry_pc, retry_result, sleeps, invocations, last_outcome>>

mainvars == <<pc, exception, args, urls_file, dataset_file, existing_urls, all_urls, year,
              offset, existing_guids, urls_to_scrape, url_index, reset_calls, failed_fetches,
              dataset0, resume, stale_page_seen, last_page, last_fetch>>

crawlvars == <<crawl_args, crawl_pc, crawl_year, crawl_page, shown_year, navigated>>

vars == <<rlvars, schemavars, retryvars, mainvars, crawlvars>>

\* ------------------------------------------------------------------ bounds
MaxClock == 3
MaxInitCalls == 4
MaxPeriod == 2
MaxDoublings == 5
MaxSleepLoops == 2
MaxGrowth == 2

\* ------------------------------------------------------------------ helpers
Min(a, b) == IF a <= b THEN a ELSE b

Max(a, b) == IF a >= b THEN a ELSE b

RECURSIVE GCD(_, _)
GCD(a, b) == IF b = 0 THEN a ELSE GCD(b, a % b)

\* a fraction n/d in lowest terms
Frac(n, d) == LET g == GCD(n, d) IN [n |-> n \div g, d |-> d \div g]

FracLess(x, y) == x.n * y.d < y.n * x.d

FracMin(x, y) == IF FracLess(y, x) THEN y ELSE x

FracMax(x, y) == IF FracLess(x, y) THEN y ELSE x

FracMul(x, y) == Frac(x.n * y.n, x.d * y.d)

FracDiv(x, y) == Frac(x.n * y.d, x.d * y.n)

\* ------------------------------------------------------- AdaptiveRateLimiter
\* AdaptiveRateLimiter.__init__(initial_delay=0.1, max_delay=5.0, backoff_factor=1.5)
AdaptiveRateLimiterInit ==
    [delay |-> Frac(1, 10), max_delay |-> Frac(5, 1), backoff_factor |-> Frac(3, 2),
     success_streak |-> 0, failure_streak |-> 0]

SuccessStreakThreshold == 10

\* AdaptiveRateLimiter.success
AdaptiveSuccess(a) ==
    LET s == a.success_streak + 1 IN
    IF s >= SuccessStreakThreshold
    THEN [a EXCEPT !.success_streak = 0, !.failure_streak = 0,
                   !.delay = FracMax(FracDiv(a.delay, a.backoff_factor), Frac(1, 10))]
    ELSE [a EXCEPT !.success_streak = s, !.failure_streak = 0]

\* failure() without `min(..., self.max_delay)`
AdaptiveFailureNoCap(a) ==
    [a EXCEPT !.failure_streak = @ + 1, !.success_streak = 0,
              !.delay = FracMul(a.delay, a.backoff_factor)]

\* AdaptiveRateLimiter.failure
AdaptiveFailure(a) ==
    [a EXCEPT !.failure_streak = @ + 1, !.success_streak = 0,
              !.delay = FracMin(FracMul(a.delay, a.backoff_factor), a.max_delay)]

\* --------------------------------------------------------------- RateLimiter
\* RateLimiter.__init__(calls, period, backoff_factor=1.4, jitter=1)
RateLimiterInit(calls, period) ==
    [calls |-> calls, period |-> period, backoff_factor |-> 0, jitter |-> 1,
     timestamps |-> <<>>, successful_requests |-> 0, error_count |-> 0,
     adaptive_limiter |-> AdaptiveRateLimiterInit]

GrowthThreshold == 11

ErrorThreshold == 5

\* wait(), branch `if len(self.timestamps) < self.calls`
WaitHasRoom(rl) == Len(rl.timestamps) < rl.calls

\* wait(), branch `elif now - self.timestamps[0] > timedelta(seconds=self.period)`
WaitOldestExpired(rl, now) == now - rl.timestamps[1] > rl.period

\* wait(), body of the first branch: record the timestamp, count the request,
\* grow the capacity on the threshold, report the success
WaitAdmit(rl, now) ==
    LET s == rl.successful_requests + 1
        grow == s >= GrowthThreshold
    IN [rl EXCEPT !.timestamps = Append(@, now),
                  !.successful_requests = IF grow THEN 0 ELSE s,
                  !.calls = IF grow THEN @ + 1 ELSE @,
                  !.adaptive_limiter = AdaptiveSuccess(@)]

\* wait(), body of the second branch: drop the oldest timestamp
WaitEvict(rl) ==
    [rl EXCEPT !.timestamps = Tail(@), !.successful_requests = @ + 1]

\* wait(), body of the third branch (after the sleep)
WaitBackoff(rl) ==
    [rl EXCEPT !.adaptive_limiter = AdaptiveFailure(@)]

\* reset_on_error with `self.calls - 1` in place of `max(1, self.calls - 1)`
ResetOnErrorNoFloor(rl) ==
    LET c1 == rl.calls - 1
        e == rl.error_count + 1
        trip == e >= ErrorThreshold
    IN [rl EXCEPT !.calls = IF trip THEN c1 - 1 ELSE c1,
                  !.backoff_factor = @ + 1,
                  !.successful_requests = 0,
                  !.error_count = IF trip THEN 0 ELSE e,
                  !.adaptive_limiter = AdaptiveFailure(@)]

\* RateLimiter.reset_on_error
ResetOnError(rl) ==
    LET c1 == Max(1, rl.calls - 1)
        e == rl.error_count + 1
        trip == e >= ErrorThreshold
    IN [rl EXCEPT !.calls = IF trip THEN Max(1, c1 - 1) ELSE c1,
                  !.backoff_factor = @ + 1,
                  !.successful_requests = 0,
                  !.error_count = IF trip THEN 0 ELSE e,
                  !.adaptive_limiter = AdaptiveFailure(@)]

\* a whole wait() call entered at time `now`: the loop run to its `break`.
\* `now` is read once, so once the third branch is taken its test never
\* changes and the call does not return (returned = FALSE).
RECURSIVE WaitRun(_, _)
WaitRun(rl, now) ==
    IF WaitHasRoom(rl) THEN [returned |-> TRUE, rl |-> WaitAdmit(rl, now)]
    ELSE IF WaitOldestExpired(rl, now) THEN WaitRun(WaitEvict(rl), now)
    ELSE [returned |-> FALSE, rl |-> rl]

\* ------------------------------------------------------------- JSON values
Null == [t |-> "null"]

Str(s) == [t |-> "str", v |-> s]

List(q) == [t |-> "list", v |-> q]

Dict(f) == [t |-> "dict", v |-> f]

EmptyDict == Dict([k \in {} |-> Null])

\* isinstance(x, dict), isinstance(x, list)
IsDict(x) == x.t = "dict"

IsList(x) == x.t = "list"

\* `k in d`
HasKey(d, k) == k \in DOMAIN d.v

\* d.get(k, default)
Get(d, k, default) == IF HasKey(d, k) THEN d.v[k] ELSE default

\* d[k] = x
Put(d, k, x) == Dict([j \in DOMAIN d.v \cup {k} |-> IF j = k THEN x ELSE d.v[j]])

\* the dicts whose keys are any subset of the domain of `choices`, key k
\* holding a value of choices[k]
DictsOver(choices) ==
    UNION {{Dict(f) : f \in {g \in [S -> UNION {choices[k] : k \in S}] :
                                  \A k \in S : g[k] \in choices[k]}}
           : S \in SUBSET DOMAIN choices}

\* the sequences over S of length at most n
SeqsUpTo(S, n) == UNION {[1..k -> S] : k \in 0..n}

\* ... in which no element comes twice
DistinctSeqsUpTo(S, n) == {q \in SeqsUpTo(S, n) : \A i, j \in DOMAIN q : q[i] = q[j] => i = j}

\* ----------------------------------------------------------- enforce_schema
\* the module-level correct_schema as written in the source
CorrectSchemaTemplate ==
    Dict([k \in {"descriptores"} |->
        Dict([j \in {"descriptor", "suggest"} |->
            IF j = "descriptor"
            THEN List(<<Dict([i \in {"elegido", "preferido", "sinonimos"} |->
                    IF i = "sinonimos"
                    THEN Dict([m \in {"termino"} |-> List(<<Str("sinonimo")>>)])
                    ELSE Dict([m \in {"termino"} |-> Str(i)])])>>)
            ELSE Dict([m \in {"termino"} |-> List(<<Str("sugerido")>>)])])])

\* the outcome of a call: a returned value, or an exception
\* (shared: the value is the module-level correct_schema object itself)
Return(x) == [raised |-> FALSE, value |-> x, shared |-> FALSE]

ReturnTemplate == [raised |-> FALSE, value |-> correct_schema, shared |-> TRUE]

Raise(e) == [raised |-> TRUE, value |-> Str(e), shared |-> FALSE]

\* the pass with line 223 done without the test of line 222
EnforceItemAlwaysWraps(d) ==
    IF ~HasKey(d, "elegido") \/ ~IsDict(d.v["elegido"]) THEN [kind |-> "template"]
    ELSE IF ~HasKey(d, "preferido") \/ ~IsDict(d.v["preferido"]) THEN [kind |-> "template"]
    ELSE LET d1 == IF ~HasKey(d, "sinonimos") \/ ~IsDict(d.v["sinonimos"])
                   THEN Put(d, "sinonimos", Dict([m \in {"termino"} |-> List(<<>>)]))
                   ELSE d
             sin == d1.v["sinonimos"]
         IN IF ~HasKey(sin, "termino") THEN [kind |-> "raise"]
            ELSE [kind |-> "item",
                  item |-> Put(d1, "sinonimos", Put(sin, "termino", List(<<sin.v["termino"]>>)))]

\* one pass of `for d in descriptor` over the item d: "template" when the
\* loop returns correct_schema, "raise" when d['sinonimos']['termino'] is a
\* KeyError, else the item as the pass leaves it
EnforceItem(d) ==
    IF ~HasKey(d, "elegido") \/ ~IsDict(d.v["elegido"]) THEN [kind |-> "template"]
    ELSE IF ~HasKey(d, "preferido") \/ ~IsDict(d.v["preferido"]) THEN [kind |-> "template"]
    ELSE LET d1 == IF ~HasKey(d, "sinonimos") \/ ~IsDict(d.v["sinonimos"])
                   THEN Put(d, "sinonimos", Dict([m \in {"termino"} |-> List(<<>>)]))
                   ELSE d
             sin == d1.v["sinonimos"]
         IN IF ~HasKey(sin, "termino") THEN [kind |-> "raise"]
            ELSE IF ~IsList(sin.v["termino"])
                 THEN [kind |-> "item",
                       item |-> Put(d1, "sinonimos", Put(sin, "termino", List(<<sin.v["termino"]>>)))]
                 ELSE [kind |-> "item", item |-> d1]

\* the part of enforce_schema after the loop: `suggest`
EnforceSuggest(data, descriptores) ==
    LET suggest == Get(descriptores, "suggest", EmptyDict) IN
    IF ~IsDict(suggest) THEN ReturnTemplate
    ELSE IF ~HasKey(suggest, "termino") \/ ~IsList(suggest.v["termino"])
         THEN \* suggest['termino'] = [] changes data only when suggest is
              \* the object held by descriptores, which is held by data
              IF HasKey(data, "descriptores") /\ HasKey(descriptores, "suggest")
              THEN Return(Put(data, "descriptores",
                              Put(descriptores, "suggest", Put(suggest, "termino", List(<<>>)))))
              ELSE Return(data)
         ELSE Return(data)

enforce_schema(data) ==
    IF ~IsDict(data) THEN ReturnTemplate
    ELSE LET descriptores == Get(data, "descriptores", EmptyDict) IN
    IF ~IsDict(descriptores) THEN ReturnTemplate
    ELSE LET descriptor == Get(descriptores, "descriptor", List(<<>>)) IN
    IF ~IsList(descriptor) \/ \E i \in DOMAIN descriptor.v : ~IsDict(descriptor.v[i])
    THEN ReturnTemplate
    ELSE LET items == descriptor.v
             pass == [i \in DOMAIN items |-> EnforceItem(items[i])]
             stops == {i \in DOMAIN items : pass[i].kind # "item"}
         IN IF stops # {}
            THEN LET first == CHOOSE i \in stops : \A j \in stops : i <= j
                 IN IF pass[first].kind = "raise" THEN Raise("KeyError") ELSE ReturnTemplate
            ELSE LET fixed == List([i \in DOMAIN items |-> pass[i].item])
                     \* the items are changed in place: a non-empty list is
                     \* the one held by data
                     descriptores1 == IF items = <<>> THEN descriptores
                                      ELSE Put(descriptores, "descriptor", fixed)
                     data1 == IF items = <<>> THEN data
                              ELSE Put(data, "descriptores", descriptores1)
                 IN EnforceSuggest(data1, descriptores1)

\* ----------------------------------------------- enforce_schema on its own
MaxDescriptors == 1

TerminoValues == {Str("x"), List(<<Str("x")>>)}

SinonimosValues == {Str("x")} \cup DictsOver([k \in {"termino"} |-> TerminoValues])

ElegidoValues == {Str("x"), Dict([m \in {"termino"} |-> Str("x")])}

DescriptorItems ==
    {Str("x")} \cup DictsOver([k \in {"elegido", "preferido", "sinonimos"} |->
                                 IF k = "sinonimos" THEN SinonimosValues ELSE ElegidoValues])

DescriptorValues == {Str("x")} \cup {List(q) : q \in SeqsUpTo(DescriptorItems, MaxDescriptors)}

DescriptoresValues ==
    {Str("x")} \cup DictsOver([k \in {"descriptor", "suggest"} |->
                                 IF k = "descriptor" THEN DescriptorValues ELSE SinonimosValues])

RawContents ==
    {Null, Str("x"), List(<<>>)} \cup DictsOver([k \in {"descriptores"} |-> DescriptoresValues])

SchemaIdle ==
    /\ correct_schema = CorrectSchemaTemplate
    /\ schema_in = Null
    /\ schema_out = Return(Null)
    /\ schema_pc = "idle"

RLIdle ==
    /\ rate_limiter = RateLimiterInit(1, 1)
    /\ clock = 0
    /\ wait_pc = "idle"
    /\ wait_now = 0
    /\ wait_backoff = 0

NoPage == [year |-> 0, offset |-> 0, kind |-> "", status |-> 0, is_list |-> FALSE,
           urls |-> <<>>, fresh |-> {}, attempts |-> 0, resets |-> 0, ended_year |-> FALSE]

NoFetch == [guid |-> "", failures |-> 0, resets |-> 0, persisted |-> FALSE]

NoResume == [restarted |-> FALSE, year |-> 0, offset |-> 0, again |-> 0]

NoFile == [exists |-> FALSE, lines |-> <<>>]

MainIdle ==
    /\ pc = "idle"
    /\ exception = ""
    /\ args = [update |-> FALSE, data |-> FALSE, amount |-> 0]
    /\ urls_file = NoFile
    /\ dataset_file = NoFile
    /\ existing_urls = {}
    /\ all_urls = {}
    /\ year = 0
    /\ offset = 0
    /\ existing_guids = {}
    /\ urls_to_scrape = <<>>
    /\ url_index = 0
    /\ reset_calls = 0
    /\ failed_fetches = 0
    /\ dataset0 = <<>>
    /\ resume = NoResume
    /\ stale_page_seen = FALSE
    /\ last_page = NoPage
    /\ last_fetch = NoFetch

RetryIdle ==
    /\ retry_args = [max_retries |-> 0, delay |-> 0]
    /\ attempt = 0
    /\ retry_pc = "idle"
    /\ retry_result = Return(Null)
    /\ sleeps = <<>>
    /\ invocations = 0
    /\ last_outcome = Return(Null)

CrawlIdle ==
    /\ crawl_args = [year |-> 0, stop |-> 0]
    /\ crawl_pc = "idle"
    /\ crawl_year = 0
    /\ crawl_page = 0
    /\ shown_year = 0
    /\ navigated = <<>>

SchemaInit ==
    /\ correct_schema = CorrectSchemaTemplate
    /\ schema_in \in RawContents
    /\ schema_out = Return(Null)
    /\ schema_pc = "called"
    /\ RLIdle
    /\ RetryIdle
    /\ MainIdle
    /\ CrawlIdle

\* content = enforce_schema(content)
SchemaCall ==
    /\ schema_pc = "called"
    /\ schema_out' = enforce_schema(schema_in)
    /\ schema_pc' = IF enforce_schema(schema_in).raised THEN "raised" ELSE "returned"
    /\ UNCHANGED <<crawlvars, correct_schema, schema_in, rlvars, retryvars, mainvars>>

SchemaNext == SchemaCall

SchemaSpec == SchemaInit /\ [][SchemaNext]_vars

\* ------------------------------------------------------------------- retry
\* 2 ** n
RECURSIVE Pow2(_)
Pow2(n) == IF n = 0 THEN 1 ELSE 2 * Pow2(n - 1)

\* RetryStep with the last attempt tested as `attempt == max_retries`
RetryStepOffByOne(max_retries, delay, att, outcome) ==
    IF ~outcome.raised THEN [pc |-> "returned", result |-> outcome, slept |-> <<>>]
    ELSE IF att = max_retries THEN [pc |-> "raised", result |-> outcome, slept |-> <<>>]
    ELSE [pc |-> "attempting", result |-> outcome, slept |-> <<delay * Pow2(att)>>]

\* RetryStep without the `return` of the awaited result
RetryStepDropsResult(max_retries, delay, att, outcome) ==
    IF ~outcome.raised THEN [pc |-> "returned", result |-> Return(Null), slept |-> <<>>]
    ELSE IF att = max_retries - 1 THEN [pc |-> "raised", result |-> outcome, slept |-> <<>>]
    ELSE [pc |-> "attempting", result |-> outcome, slept |-> <<delay * Pow2(att)>>]

\* one iteration of `for attempt in range(max_retries)` in wrapper, given the
\* outcome of `await func(*args, **kwargs)`: return it, re-raise it on the
\* last attempt, or sleep delay * 2 ** attempt and go round again
RetryStep(max_retries, delay, att, outcome) ==
    IF ~outcome.raised THEN [pc |-> "returned", result |-> outcome, slept |-> <<>>]
    ELSE IF att = max_retries - 1 THEN [pc |-> "raised", result |-> outcome, slept |-> <<>>]
    ELSE [pc |-> "attempting", result |-> outcome, slept |-> <<delay * Pow2(att)>>]

\* --------------------------------------------- the retry wrapper on its own
MaxRetriesArg == 4

MaxDelayArg == 2

\* what the wrapped function may do on one call
FuncOutcomes == {Return(Null), Return(Str("r1")), Return(Str("r2")),
                 Raise("ClientError"), Raise("JSONDecodeError")}

RetryInit ==
    /\ retry_args \in [max_retries : 0..MaxRetriesArg, delay : 0..MaxDelayArg]
    /\ attempt = 0
    /\ retry_pc = "enter"
    /\ retry_result = Return(Null)
    /\ sleeps = <<>>
    /\ invocations = 0
    /\ last_outcome = Return(Null)
    /\ RLIdle
    /\ SchemaIdle
    /\ MainIdle
    /\ CrawlIdle

\* the call of wrapper: range(max_retries) is empty for max_retries = 0 and
\* the wrapper falls off its end, returning None
RetryEnter ==
    /\ retry_pc = "enter"
    /\ retry_pc' = IF retry_args.max_retries <= 0 THEN "returned" ELSE "attempting"
    /\ UNCHANGED <<crawlvars, retry_args, attempt, retry_result, sleeps, invocations, last_outcome,
                   rlvars, schemavars, mainvars>>

RetryAttempt ==
    /\ retry_pc = "attempting"
    /\ \E outcome \in FuncOutcomes :
         LET step == RetryStep(retry_args.max_retries, retry_args.delay, attempt, outcome)
             att == attempt + 1
         IN /\ invocations' = invocations + 1
            /\ last_outcome' = outcome
            /\ sleeps' = sleeps \o step.slept
            /\ \* the for loop ends when range(max_retries) is used up
               retry_pc' = IF step.pc = "attempting" /\ att >= retry_args.max_retries
                           THEN "returned" ELSE step.pc
            /\ attempt' = IF step.pc = "attempting" /\ att < retry_args.max_retries
                          THEN att ELSE attempt
            /\ retry_result' = IF step.pc = "attempting" THEN Return(Null) ELSE step.result
    /\ UNCHANGED <<crawlvars, retry_args, rlvars, schemavars, mainvars>>

RetryNext == RetryEnter \/ RetryAttempt

RetrySpec == RetryInit /\ [][RetryNext]_vars

\* ------------------------------------------- the limiter driven on its own
RLInit ==
    /\ \E c \in 1..MaxInitCalls, p \in 1..MaxPeriod : rate_limiter = RateLimiterInit(c, p)
    /\ clock = 0
    /\ wait_pc = "idle"
    /\ wait_now = 0
    /\ wait_backoff = 0
    /\ SchemaIdle
    /\ RetryIdle
    /\ MainIdle
    /\ CrawlIdle

\* `now = datetime.now(); backoff = 1`
RLWaitCall ==
    /\ wait_pc = "idle"
    /\ wait_pc' = "loop"
    /\ wait_now' = clock
    /\ wait_backoff' = 0
    /\ UNCHANGED <<crawlvars, rate_limiter, clock, schemavars, retryvars, mainvars>>

RLWaitAdmit ==
    /\ wait_pc = "loop"
    /\ WaitHasRoom(rate_limiter)
    /\ rate_limiter.calls < MaxInitCalls + MaxGrowth
    /\ rate_limiter' = WaitAdmit(rate_limiter, wait_now)
    /\ wait_pc' = "idle"
    /\ UNCHANGED <<crawlvars, clock, wait_now, wait_backoff, schemavars, retryvars, mainvars>>

RLWaitEvict ==
    /\ wait_pc = "loop"
    /\ ~WaitHasRoom(rate_limiter)
    /\ WaitOldestExpired(rate_limiter, wait_now)
    /\ rate_limiter' = WaitEvict(rate_limiter)
    /\ UNCHANGED <<crawlvars, clock, wait_pc, wait_now, wait_backoff, schemavars, retryvars, mainvars>>

\* the sleep lets time pass; its length (period * backoff_factor ** backoff
\* plus jitter) is any amount the clock bound allows
RLWaitSleep ==
    /\ wait_pc = "loop"
    /\ ~WaitHasRoom(rate_limiter)
    /\ ~WaitOldestExpired(rate_limiter, wait_now)
    /\ wait_backoff < MaxSleepLoops
    /\ \E t \in clock..MaxClock : clock' = t
    /\ wait_backoff' = wait_backoff + 1
    /\ rate_limiter' = WaitBackoff(rate_limiter)
    /\ UNCHANGED <<crawlvars, wait_pc, wait_now, schemavars, retryvars, mainvars>>

RLResetOnError ==
    /\ wait_pc = "idle"
    /\ rate_limiter.backoff_factor < MaxDoublings
    /\ rate_limiter' = ResetOnError(rate_limiter)
    /\ UNCHANGED <<crawlvars, clock, wait_pc, wait_now, wait_backoff, schemavars, retryvars, mainvars>>

RLTick ==
    /\ clock < MaxClock
    /\ clock' = clock + 1
    /\ UNCHANGED <<crawlvars, rate_limiter, wait_pc, wait_now, wait_backoff, schemavars, retryvars, mainvars>>

RLNext ==
    \/ RLWaitCall
    \/ RLWaitAdmit
    \/ RLWaitEvict
    \/ RLWaitSleep
    \/ RLResetOnError
    \/ RLTick

RLSpec == RLInit /\ [][RLNext]_vars

\* ------------------------------------------------------- files and loaders
\* the URLs the index can serve: two friendly names of document g1, and g2
URLs == {<<"a", "g1">>, <<"b", "g1">>, <<"a", "g2">>}

\* guid = url.split("/")[-1]
GuidOf(url) == url[Len(url)]

Range(q) == {q[i] : i \in DOMAIN q}

Reverse(q) == [i \in 1..Len(q) |-> q[Len(q) + 1 - i]]

\* the orders in which `for url in all_urls` can visit a set
Orders(S) == {q \in [1..Cardinality(S) -> S] : \A i, j \in 1..Cardinality(S) : q[i] = q[j] => i = j}

\* a line of the dataset log that json.loads rejects
MalformedLine == [t |-> "malformed"]

\* load_existing_data that forgets the URL lines it read
load_existing_data_forgets_urls(file, key) ==
    IF ~file.exists \/ key = "url" THEN {}
    ELSE IF \E i \in DOMAIN file.lines : file.lines[i] = MalformedLine THEN {}
    ELSE {file.lines[i].v[key].v : i \in {j \in DOMAIN file.lines :
                                           IsDict(file.lines[j]) /\ HasKey(file.lines[j], key)}}

\* load_existing_data that forgets the records it read
load_existing_data_forgets(file, key) ==
    IF ~file.exists THEN {}
    ELSE IF key = "url" THEN Range(file.lines)
    ELSE {}

\* load_existing_data: a missing file gives the empty set; with key 'url'
\* the set of lines; else the `key` of every line that has it, and the
\* empty set again when json.loads raises on any line
load_existing_data(file, key) ==
    IF ~file.exists THEN {}
    ELSE IF key = "url" THEN Range(file.lines)
    ELSE IF \E i \in DOMAIN file.lines : file.lines[i] = MalformedLine THEN {}
    ELSE {file.lines[i].v[key].v : i \in {j \in DOMAIN file.lines :
                                           IsDict(file.lines[j]) /\ HasKey(file.lines[j], key)}}

\* load_existing_data_reverse: no exception is handled
load_existing_data_reverse(file, key) ==
    IF ~file.exists THEN [raised |-> TRUE, error |-> "FileNotFoundError", value |-> {}]
    ELSE IF \E i \in DOMAIN file.lines : file.lines[i] = MalformedLine
         THEN [raised |-> TRUE, error |-> "JSONDecodeError", value |-> {}]
    ELSE IF \E i \in DOMAIN file.lines : ~HasKey(file.lines[i], key)
         THEN [raised |-> TRUE, error |-> "KeyError", value |-> {}]
    ELSE [raised |-> FALSE, error |-> "",
          value |-> {file.lines[i].v[key].v : i \in DOMAIN file.lines}]

\* read_lines_reverse without the reversal
read_lines_forward(file) == file.lines

\* read_lines_reverse
read_lines_reverse(file) == Reverse(file.lines)

\* validate_data
validate_data(content) == HasKey(content, "guid")

\* rate_limiter.reset_on_error() called n times in a row
RECURSIVE ApplyResets(_, _)
ApplyResets(rl, n) == IF n = 0 THEN rl ELSE ApplyResets(ResetOnError(rl), n - 1)

\* ---------------------------------------------------------------- get_urls
FirstYear == 1799

CurrentYear == 1800

Amount == 4000

MaxPagesPerYear == 2

MaxPageLen == 3

MaxFailedFetches == 3

GetUrlsRetry == [max_retries |-> 3, delay |-> 1]

ScrapeDataRetry == [max_retries |-> 10, delay |-> 1]

\* an entry of documentResultList whose documentAbstract does not parse
BadItem == <<>>

Response(kind, status, body) == [kind |-> kind, status |-> status, body |-> body]

\* the result pages: at most MaxPageLen distinct entries, the entry that
\* does not parse, if there is one, in front
PageBodies ==
    DistinctSeqsUpTo(URLs, MaxPageLen)
    \cup {<<BadItem>> \o q : q \in DistinctSeqsUpTo(URLs, MaxPageLen - 1)}

\* what the discovery endpoint may answer: a status, a transport error, a
\* body that is not JSON, a JSON body that is not a dict, a result page
PageResponses ==
    {Response("http", 500, <<>>), Response("http", 404, <<>>), Response("transport", 0, <<>>),
     Response("undecodable", 200, <<>>), Response("nondict", 200, <<>>)}
    \cup {Response("page", 200, q) : q \in PageBodies}

IsFailure(resp) == resp.kind \notin {"page", "document"} /\ ~(resp.kind = "http" /\ resp.status = 500)

\* the items of a page that parse, in order
RECURSIVE ParseItems(_)
ParseItems(items) ==
    IF items = <<>> THEN <<>>
    ELSE IF Head(items) = BadItem THEN ParseItems(Tail(items))
    ELSE <<Head(items)>> \o ParseItems(Tail(items))

\* GetUrlsBody taking HTTP 500 for an error like any other status
GetUrlsBody500IsError(resp) ==
    IF resp.kind = "http" THEN [outcome |-> Return(Null), resets |-> 1]
    ELSE IF resp.kind = "nondict" THEN [outcome |-> Return(Null), resets |-> 0]
    ELSE IF resp.kind = "page" THEN [outcome |-> Return(List(ParseItems(resp.body))), resets |-> 0]
    ELSE [outcome |-> Return(Null), resets |-> 1]

\* the body of get_urls after rate_limiter.wait(): its outcome (it raises
\* nothing: every error path returns None) and its reset_on_error calls
GetUrlsBody(resp) ==
    IF resp.kind = "http" /\ resp.status = 500 THEN [outcome |-> Return(List(<<>>)), resets |-> 0]
    ELSE IF resp.kind = "http" THEN [outcome |-> Return(Null), resets |-> 1]
    ELSE IF resp.kind = "nondict" THEN [outcome |-> Return(Null), resets |-> 0]
    ELSE IF resp.kind = "page" THEN [outcome |-> Return(List(ParseItems(resp.body))), resets |-> 0]
    ELSE [outcome |-> Return(Null), resets |-> 1]

\* ------------------------------------------------------------- scrape_data
GoodContent ==
    Dict([k \in {"descriptores"} |->
        Dict([j \in {"descriptor", "suggest"} |->
            IF j = "descriptor" THEN List(<<>>) ELSE Dict([m \in {"termino"} |-> List(<<>>)])])])

\* a descriptor whose 'sinonimos' is a dict without 'termino'
BadContent ==
    Dict([k \in {"descriptores"} |->
        Dict([j \in {"descriptor"} |->
            List(<<Dict([i \in {"elegido", "preferido", "sinonimos"} |-> EmptyDict])>>)])])

DocContents == {Str("x"), GoodContent, BadContent}

DocResponses ==
    {Response("http", 403, Null), Response("http", 500, Null), Response("transport", 0, Null),
     Response("undecodable", 200, Null)}
    \cup {Response("document", 200, c) : c \in DocContents}

\* the body of scrape_data after rate_limiter.wait(): a 403 calls
\* reset_on_error and raises ClientError inside the try, whose handler calls
\* reset_on_error again; another status returns None; an exception of
\* response.json(), json.loads or enforce_schema is re-raised
ScrapeDataBody(resp, guid) ==
    IF resp.kind = "http" /\ resp.status = 403 THEN [outcome |-> Raise("ClientError"), resets |-> 2]
    ELSE IF resp.kind = "http" THEN [outcome |-> Return(Null), resets |-> 1]
    ELSE IF resp.kind = "transport" THEN [outcome |-> Raise("ClientError"), resets |-> 1]
    ELSE IF resp.kind = "undecodable" THEN [outcome |-> Raise("JSONDecodeError"), resets |-> 1]
    ELSE LET r == enforce_schema(resp.body) IN
         IF r.raised THEN [outcome |-> r, resets |-> 1]
         ELSE [outcome |-> [r EXCEPT !.value = Put(@, "guid", Str(guid))], resets |-> 0]

\* -------------------------------------------------------------------- main
MaxInitUrls == 2

MaxInitRecords == 1

\* a record as a run writes it: normalized content plus guid
RecordOf(g) == Put(GoodContent, "guid", Str(g))

GuidsIn(lines) == {lines[i].v["guid"].v : i \in DOMAIN lines}

\* the logs a run may find: absent, or as earlier runs wrote them (no URL
\* line twice, no guid in two records)
InitUrlFiles ==
    {NoFile} \cup {[exists |-> TRUE, lines |-> q] : q \in DistinctSeqsUpTo(URLs, MaxInitUrls)}

InitDatasetFiles ==
    {NoFile} \cup {[exists |-> TRUE, lines |-> [i \in DOMAIN q |-> RecordOf(q[i])]] :
                     q \in DistinctSeqsUpTo({"g1", "g2"}, MaxInitRecords)}

\* main is entered with one of the command lines `argset` and the logs
\* `urlfiles`, `datasets`
MainInit(argset, urlfiles, datasets) ==
    /\ pc = "start"
    /\ exception = ""
    /\ args \in argset
    /\ urls_file \in urlfiles
    /\ dataset_file \in datasets
    /\ dataset0 = dataset_file.lines
    /\ resume = NoResume
    /\ existing_urls = {}
    /\ all_urls = {}
    /\ year = 0
    /\ offset = 0
    /\ existing_guids = {}
    /\ urls_to_scrape = <<>>
    /\ url_index = 0
    /\ reset_calls = 0
    /\ failed_fetches = 0
    /\ stale_page_seen = FALSE
    /\ last_page = NoPage
    /\ last_fetch = NoFetch
    /\ rate_limiter = RateLimiterInit(1000000, 100)
    /\ clock = 0
    /\ wait_pc = "idle"
    /\ wait_now = 0
    /\ wait_backoff = 0
    /\ SchemaIdle
    /\ RetryIdle
    /\ CrawlIdle

Init ==
    MainInit([update : BOOLEAN, data : BOOLEAN, amount : {Amount}], InitUrlFiles, InitDatasetFiles)

\* the wrapper call is over: its locals are gone
RetryFinish ==
    /\ attempt' = 0
    /\ retry_pc' = "idle"
    /\ retry_result' = Return(Null)
    /\ sleeps' = <<>>
    /\ invocations' = 0
    /\ last_outcome' = Return(Null)
    /\ reset_calls' = 0

\* the wrapper sleeps and goes round again
RetryAgain(step, outcome, resets) ==
    /\ attempt' = attempt + 1
    /\ retry_pc' = "attempting"
    /\ retry_result' = Return(Null)
    /\ sleeps' = sleeps \o step.slept
    /\ invocations' = invocations + 1
    /\ last_outcome' = outcome
    /\ reset_calls' = reset_calls + resets

\* UpdateLoopBreaks testing the page instead of its new URLs
UpdateLoopBreaksNever(new_urls) == FALSE

\* line 287, `if not new_urls`: the update loop ends
UpdateLoopBreaks(new_urls) == new_urls = {}

\* BackfillLoopBreaks with the test of the update loop: no new URL
BackfillLoopBreaksOnKnown(urls) == ~IsList(urls) \/ Range(urls.v) \ existing_urls = {}

\* BackfillLoopBreaks that goes on after an empty list
BackfillLoopBreaksOnNoneOnly(urls) == ~IsList(urls)

\* line 301, `if not urls`: the year ends on None and on the empty list
BackfillLoopBreaks(urls) == ~IsList(urls) \/ urls.v = <<>>

\* the page of year y at offset o was answered to the interrupted run: it
\* lies before the point of interruption in y, or opens an earlier year
CompletedBefore(y, o) ==
    /\ resume.restarted
    /\ \/ y = resume.year /\ o < resume.offset
       \/ y < resume.year /\ o = 0

\* history: a page asked again is counted
AfterRequest(y, o) ==
    IF CompletedBefore(y, o) THEN [resume EXCEPT !.again = @ + 1] ELSE resume

\* main without the test of line 272: the discovery runs whatever args.data
MainStartIgnoresData ==
    /\ pc = "start"
    /\ existing_urls' = load_existing_data(urls_file, "url")
    /\ all_urls' = {}
    /\ year' = IF args.update THEN CurrentYear ELSE FirstYear
    /\ offset' = 0
    /\ pc' = IF args.update THEN "discover_update" ELSE "discover_backfill"
    /\ UNCHANGED <<crawlvars, exception, args, urls_file, dataset_file, existing_guids, urls_to_scrape,
                   url_index, reset_calls, failed_fetches, dataset0, resume, stale_page_seen, last_page,
                   last_fetch, rlvars, schemavars, retryvars>>

\* lines 273-283 and 295-298: load the known URLs, choose the enumeration
MainStart ==
    /\ pc = "start"
    /\ IF args.data
       THEN /\ pc' = "load"
            /\ UNCHANGED <<existing_urls, all_urls, year, offset>>
       ELSE /\ existing_urls' = load_existing_data(urls_file, "url")
            /\ all_urls' = {}
            /\ year' = IF args.update THEN CurrentYear ELSE FirstYear
            /\ offset' = 0
            /\ pc' = IF args.update THEN "discover_update" ELSE "discover_backfill"
    /\ UNCHANGED <<crawlvars, exception, args, urls_file, dataset_file, existing_guids, urls_to_scrape,
                   url_index, reset_calls, failed_fetches, dataset0, resume, stale_page_seen, last_page,
                   last_fetch, rlvars, schemavars, retryvars>>

\* one get_urls call of the update loop (lines 284-293) with what the loop
\* does with its result
DiscoverUpdate ==
    /\ pc = "discover_update"
    /\ offset < MaxPagesPerYear * args.amount
    /\ \E resp \in PageResponses :
         LET w == WaitRun(rate_limiter, clock)
             body == GetUrlsBody(resp)
             step == RetryStep(GetUrlsRetry.max_retries, GetUrlsRetry.delay, attempt, body.outcome)
             urls == step.result.value
             new_urls == IF IsList(urls) THEN Range(urls.v) \ existing_urls ELSE {}
         IN /\ w.returned
            /\ IsFailure(resp) => failed_fetches < MaxFailedFetches
            /\ failed_fetches' = IF IsFailure(resp) THEN failed_fetches + 1 ELSE failed_fetches
            /\ rate_limiter' = ApplyResets(w.rl, body.resets)
            /\ retry_args' = GetUrlsRetry
            /\ IF step.pc = "attempting"
               THEN /\ RetryAgain(step, body.outcome, body.resets)
                    /\ UNCHANGED <<pc, exception, all_urls, offset, stale_page_seen, last_page,
                                   resume>>
               ELSE /\ RetryFinish
                    /\ resume' = AfterRequest(year, offset)
                    /\ stale_page_seen' = (stale_page_seen \/ new_urls = {})
                    /\ last_page' = [year |-> year, offset |-> offset, kind |-> resp.kind,
                                     status |-> resp.status, is_list |-> IsList(urls),
                                     urls |-> IF IsList(urls) THEN urls.v ELSE <<>>,
                                     fresh |-> new_urls, attempts |-> invocations + 1,
                                     resets |-> reset_calls + body.resets,
                                     ended_year |-> ~IsList(urls) \/ UpdateLoopBreaks(new_urls)]
                    /\ IF step.pc = "raised" \/ ~IsList(urls)
                       THEN \* set(None) raises TypeError
                            /\ pc' = "crashed"
                            /\ exception' = IF step.pc = "raised" THEN step.result.value.v
                                            ELSE "TypeError"
                            /\ UNCHANGED <<all_urls, offset>>
                       ELSE IF UpdateLoopBreaks(new_urls)
                       THEN /\ pc' = "save_urls"
                            /\ UNCHANGED <<exception, all_urls, offset>>
                       ELSE /\ all_urls' = all_urls \cup new_urls
                            /\ offset' = offset + args.amount
                            /\ UNCHANGED <<pc, exception>>
    /\ UNCHANGED <<crawlvars, args, urls_file, dataset_file, existing_urls, year, existing_guids,
                   urls_to_scrape, url_index, dataset0, last_fetch,
                   clock, wait_pc, wait_now, wait_backoff, schemavars>>

\* one get_urls call of the backfill loop (lines 296-307); a falsy result
\* ends the year and the for loop moves on
DiscoverBackfill ==
    /\ pc = "discover_backfill"
    /\ offset < MaxPagesPerYear * args.amount
    /\ \E resp \in PageResponses :
         LET w == WaitRun(rate_limiter, clock)
             body == GetUrlsBody(resp)
             step == RetryStep(GetUrlsRetry.max_retries, GetUrlsRetry.delay, attempt, body.outcome)
             urls == step.result.value
             falsy == BackfillLoopBreaks(urls)
             new_urls == IF IsList(urls) THEN Range(urls.v) \ existing_urls ELSE {}
         IN /\ w.returned
            /\ IsFailure(resp) => failed_fetches < MaxFailedFetches
            /\ failed_fetches' = IF IsFailure(resp) THEN failed_fetches + 1 ELSE failed_fetches
            /\ rate_limiter' = ApplyResets(w.rl, body.resets)
            /\ retry_args' = GetUrlsRetry
            /\ IF step.pc = "attempting"
               THEN /\ RetryAgain(step, body.outcome, body.resets)
                    /\ UNCHANGED <<pc, exception, all_urls, year, offset, stale_page_seen,
                                   last_page, resume>>
               ELSE /\ RetryFinish
                    /\ resume' = AfterRequest(year, offset)
                    /\ stale_page_seen' = (stale_page_seen \/ new_urls = {})
                    /\ last_page' = [year |-> year, offset |-> offset, kind |-> resp.kind,
                                     status |-> resp.status, is_list |-> IsList(urls),
                                     urls |-> IF IsList(urls) THEN urls.v ELSE <<>>,
                                     fresh |-> new_urls, attempts |-> invocations + 1,
                                     resets |-> reset_calls + body.resets,
                                     ended_year |-> step.pc = "returned" /\ falsy]
                    /\ IF step.pc = "raised"
                       THEN /\ pc' = "crashed"
                            /\ exception' = step.result.value.v
                            /\ UNCHANGED <<all_urls, year, offset>>
                       ELSE IF falsy
                       THEN /\ offset' = 0
                            /\ year' = IF year < CurrentYear THEN year + 1 ELSE year
                            /\ pc' = IF year < CurrentYear THEN "discover_backfill" ELSE "save_urls"
                            /\ UNCHANGED <<exception, all_urls>>
                       ELSE /\ all_urls' = all_urls \cup new_urls
                            /\ offset' = offset + args.amount
                            /\ UNCHANGED <<pc, exception, year>>
    /\ UNCHANGED <<crawlvars, args, urls_file, dataset_file, existing_urls, existing_guids,
                   urls_to_scrape, url_index, dataset0, last_fetch,
                   clock, wait_pc, wait_now, wait_backoff, schemavars>>

\* lines 311-313: the new URLs are appended after the enumeration, in the
\* set's iteration order
SaveUrls ==
    /\ pc = "save_urls"
    /\ \E order \in Orders(all_urls) :
         urls_file' = [exists |-> TRUE, lines |-> urls_file.lines \o order]
    /\ pc' = "load"
    \* discovery is over: its locals are not read again
    /\ existing_urls' = {}
    /\ all_urls' = {}
    /\ year' = 0
    /\ offset' = 0
    /\ UNCHANGED <<crawlvars, exception, args, dataset_file, existing_guids, urls_to_scrape, url_index,
                   reset_calls, failed_fetches, dataset0, resume, stale_page_seen, last_page, last_fetch,
                   rlvars, schemavars, retryvars>>

\* lines 316-328: the known guids and the URLs to scrape
LoadForCollection ==
    /\ pc = "load"
    /\ LET rev == load_existing_data_reverse(dataset_file, "guid") IN
       IF args.update /\ rev.raised
       THEN /\ pc' = "crashed"
            /\ exception' = rev.error
            /\ UNCHANGED <<existing_guids, urls_to_scrape, url_index>>
       ELSE IF ~urls_file.exists
       THEN /\ pc' = "crashed"
            /\ exception' = "FileNotFoundError"
            /\ existing_guids' = IF args.update THEN rev.value
                                 ELSE load_existing_data(dataset_file, "guid")
            /\ UNCHANGED <<urls_to_scrape, url_index>>
       ELSE /\ existing_guids' = IF args.update THEN rev.value
                                 ELSE load_existing_data(dataset_file, "guid")
            /\ urls_to_scrape' = IF args.update THEN read_lines_reverse(urls_file)
                                 ELSE urls_file.lines
            /\ url_index' = 1
            /\ pc' = "collect"
            /\ UNCHANGED exception
    /\ UNCHANGED <<crawlvars, args, urls_file, dataset_file, existing_urls, all_urls, year, offset,
                   reset_calls, failed_fetches, dataset0, resume, stale_page_seen, last_page, last_fetch,
                   rlvars, schemavars, retryvars>>

\* lines 331-339: the head of `for url in urls_to_scrape` and the skip test
CollectNext ==
    /\ pc = "collect"
    /\ IF url_index > Len(urls_to_scrape)
       THEN /\ pc' = "done"
            /\ UNCHANGED <<url_index, retry_args, retry_pc>>
       ELSE IF GuidOf(urls_to_scrape[url_index]) \in existing_guids
       THEN /\ pc' = IF args.update THEN "done" ELSE "collect"
            /\ url_index' = IF args.update THEN url_index ELSE url_index + 1
            /\ UNCHANGED <<retry_args, retry_pc>>
       ELSE /\ pc' = "scrape"
            /\ retry_args' = ScrapeDataRetry
            /\ retry_pc' = "attempting"
            /\ UNCHANGED url_index
    /\ UNCHANGED <<crawlvars, exception, args, urls_file, dataset_file, existing_urls, all_urls, year,
                   offset, existing_guids, urls_to_scrape, reset_calls, failed_fetches,
                   dataset0, resume, stale_page_seen, last_page, last_fetch, rlvars, schemavars,
                   attempt, retry_result, sleeps, invocations, last_outcome>>

\* one attempt of scrape_data under its retry wrapper (lines 340-348 once
\* the wrapper returns): the record is appended when the content is truthy
\* and has a guid; the run sees at most max_failures failed requests
ScrapeAttemptWithin(max_failures) ==
    /\ pc = "scrape"
    /\ \E resp \in DocResponses :
         LET guid == GuidOf(urls_to_scrape[url_index])
             w == WaitRun(rate_limiter, clock)
             body == ScrapeDataBody(resp, guid)
             failed == body.outcome.raised \/ body.outcome.value = Null
             step == RetryStep(ScrapeDataRetry.max_retries, ScrapeDataRetry.delay, attempt,
                               body.outcome)
             content == step.result.value
             keep == step.pc = "returned" /\ content # Null /\ content # EmptyDict
                     /\ validate_data(content)
         IN /\ w.returned
            /\ failed => failed_fetches < max_failures
            /\ failed_fetches' = IF failed THEN failed_fetches + 1 ELSE failed_fetches
            /\ rate_limiter' = ApplyResets(w.rl, body.resets)
            /\ IF step.pc = "attempting"
               THEN /\ RetryAgain(step, body.outcome, body.resets)
                    /\ UNCHANGED <<pc, exception, dataset_file, url_index, last_fetch,
                                   correct_schema>>
               ELSE /\ RetryFinish
                    /\ last_fetch' = [guid |-> guid, failures |-> invocations,
                                      resets |-> reset_calls + body.resets, persisted |-> keep]
                    /\ correct_schema' = IF step.pc = "returned" /\ step.result.shared
                                         THEN content ELSE correct_schema
                    /\ IF step.pc = "raised"
                       THEN /\ pc' = "crashed"
                            /\ exception' = step.result.value.v
                            /\ UNCHANGED <<dataset_file, url_index>>
                       ELSE /\ pc' = "collect"
                            /\ url_index' = url_index + 1
                            /\ dataset_file' = IF keep
                                  THEN [exists |-> TRUE, lines |-> Append(dataset_file.lines, content)]
                                  ELSE dataset_file
                            /\ UNCHANGED exception
    /\ UNCHANGED <<crawlvars, args, urls_file, existing_urls, all_urls, year, offset, existing_guids,
                   urls_to_scrape, dataset0, resume, stale_page_seen, last_page, retry_args,
                   clock, wait_pc, wait_now, wait_backoff, schema_in, schema_out, schema_pc>>

ScrapeAttempt == ScrapeAttemptWithin(MaxFailedFetches)

Next ==
    \/ MainStart
    \/ DiscoverUpdate
    \/ DiscoverBackfill
    \/ SaveUrls
    \/ LoadForCollection
    \/ CollectNext
    \/ ScrapeAttempt

Spec == Init /\ [][Next]_vars

\* the discovery phase of an --update run (lines 273-314); the dataset log
\* is not read in this phase
UpdateDiscoveryInit ==
    MainInit([update : {TRUE}, data : {FALSE}, amount : {Amount}], InitUrlFiles, {NoFile})

UpdateDiscoveryNext ==
    \/ MainStart
    \/ DiscoverUpdate
    \/ SaveUrls

UpdateDiscoverySpec == UpdateDiscoveryInit /\ [][UpdateDiscoveryNext]_vars

\* the runs with --data: collection only
CollectionInit ==
    MainInit([update : BOOLEAN, data : {TRUE}, amount : {Amount}], InitUrlFiles, InitDatasetFiles)

CollectionNext ==
    \/ MainStart
    \/ LoadForCollection
    \/ CollectNext
    \/ ScrapeAttempt

CollectionSpec == CollectionInit /\ [][CollectionNext]_vars

\* the discovery phase of a run in either mode (lines 273-314), entered
\* with a URL log of at most MaxKnownUrls lines
MaxKnownUrls == 1

KnownUrlFiles == {f \in InitUrlFiles : Len(f.lines) <= MaxKnownUrls}

DiscoveryInit ==
    MainInit([update : BOOLEAN, data : {FALSE}, amount : {Amount}], KnownUrlFiles, {NoFile})

DiscoveryNext ==
    \/ MainStart
    \/ DiscoverUpdate
    \/ DiscoverBackfill
    \/ SaveUrls

DiscoverySpec == DiscoveryInit /\ [][DiscoveryNext]_vars

\* the process is stopped between two discovery pages and the program is
\* started again with the same command line: main begins anew (lines
\* 266-283) with the two logs as the stopped run left them
InterruptDiscovery ==
    /\ ~resume.restarted
    /\ pc \in {"discover_update", "discover_backfill"}
    /\ retry_pc = "idle"
    /\ resume' = [restarted |-> TRUE, year |-> year, offset |-> offset, again |-> 0]
    /\ pc' = "start"
    /\ existing_urls' = {}
    /\ all_urls' = {}
    /\ year' = 0
    /\ offset' = 0
    /\ stale_page_seen' = FALSE
    /\ last_page' = NoPage
    /\ rate_limiter' = RateLimiterInit(1000000, 100)
    /\ UNCHANGED <<crawlvars, exception, args, urls_file, dataset_file, existing_guids, urls_to_scrape,
                   url_index, reset_calls, failed_fetches, dataset0, last_fetch,
                   clock, wait_pc, wait_now, wait_backoff, schemavars, retryvars>>

\* the discovery phase of an --update run that may be interrupted once
ResumeNext ==
    \/ MainStart
    \/ DiscoverUpdate
    \/ SaveUrls
    \/ InterruptDiscovery

ResumeSpec == UpdateDiscoveryInit /\ [][ResumeNext]_vars

\* the runs with --data over a network bad enough to use up the attempts
\* of one scrape_data call
MaxFailedFetchesToExhaust == 10

ScrapeAttemptToExhaustion == ScrapeAttemptWithin(MaxFailedFetchesToExhaust)

ExhaustionNext ==
    \/ MainStart
    \/ LoadForCollection
    \/ CollectNext
    \/ ScrapeAttemptToExhaustion

ExhaustionSpec == CollectionInit /\ [][ExhaustionNext]_vars

\* the loads of lines 316-328 over dataset logs that may hold lines
\* json.loads rejects
MaxLogLines == 2

CorruptDatasetFiles ==
    {[exists |-> TRUE, lines |-> q] :
        q \in SeqsUpTo({RecordOf("g1"), RecordOf("g2"), MalformedLine}, MaxLogLines)}

LoadInit ==
    MainInit([update : BOOLEAN, data : {TRUE}, amount : {Amount}], InitUrlFiles, CorruptDatasetFiles)

LoadNext ==
    \/ MainStart
    \/ LoadForCollection

LoadSpec == LoadInit /\ [][LoadNext]_vars

\* update runs with and without --data next to backfill runs with --data:
\* the branch of line 272 decides whether lines 273-314 run at all
DataFlagInit ==
    \/ MainInit([update : BOOLEAN, data : {TRUE}, amount : {Amount}], KnownUrlFiles, InitDatasetFiles)
    \/ MainInit([update : {TRUE}, data : {FALSE}, amount : {Amount}], KnownUrlFiles, {NoFile})

DataFlagNext ==
    \/ MainStart
    \/ DiscoverUpdate
    \/ SaveUrls
    \/ LoadForCollection
    \/ CollectNext
    \/ ScrapeAttempt

DataFlagSpec == DataFlagInit /\ [][DataFlagNext]_vars

\* the AdaptiveRateLimiter of a fresh RateLimiter driven by success() and
\* failure() calls in any order
MaxFailureStreak == 12

AdaptiveInit ==
    /\ rate_limiter = RateLimiterInit(1, 1)
    /\ clock = 0
    /\ wait_pc = "idle"
    /\ wait_now = 0
    /\ wait_backoff = 0
    /\ SchemaIdle
    /\ RetryIdle
    /\ MainIdle
    /\ CrawlIdle

AdaptiveCallSuccess ==
    /\ rate_limiter' = [rate_limiter EXCEPT !.adaptive_limiter = AdaptiveSuccess(@)]
    /\ UNCHANGED <<crawlvars, clock, wait_pc, wait_now, wait_backoff, schemavars, retryvars, mainvars>>

AdaptiveCallFailure ==
    /\ rate_limiter.adaptive_limiter.failure_streak < MaxFailureStreak
    /\ rate_limiter' = [rate_limiter EXCEPT !.adaptive_limiter = AdaptiveFailure(@)]
    /\ UNCHANGED <<crawlvars, clock, wait_pc, wait_now, wait_backoff, schemavars, retryvars, mainvars>>

AdaptiveNext ==
    \/ AdaptiveCallSuccess
    \/ AdaptiveCallFailure

AdaptiveSpec == AdaptiveInit /\ [][AdaptiveNext]_vars

\* enforce_schema applied to what it returned:
\* content = enforce_schema(enforce_schema(content))
SchemaCallAgain ==
    /\ schema_pc = "returned"
    /\ schema_in' = schema_out.value
    /\ schema_out' = enforce_schema(schema_out.value)
    /\ schema_pc' = IF enforce_schema(schema_out.value).raised
                    THEN "raised_again" ELSE "returned_again"
    /\ UNCHANGED <<crawlvars, correct_schema, rlvars, retryvars, mainvars>>

SchemaAgainNext ==
    \/ SchemaCall
    \/ SchemaCallAgain

SchemaAgainSpec == SchemaInit /\ [][SchemaAgainNext]_vars

\* the process is stopped inside the collection loop of lines 331-348,
\* between two URLs, after it has appended a record and before the last URL,
\* and the program is started again: a new process has new locals, a new
\* limiter and the module-level template as written in the source
InterruptCollection ==
    /\ ~resume.restarted
    /\ pc = "collect"
    /\ retry_pc = "idle"
    /\ url_index <= Len(urls_to_scrape)
    /\ Len(dataset_file.lines) > Len(dataset0)
    /\ resume' = [restarted |-> TRUE, year |-> 0, offset |-> 0, again |-> 0]
    /\ pc' = "start"
    /\ existing_guids' = {}
    /\ urls_to_scrape' = <<>>
    /\ url_index' = 0
    /\ dataset0' = dataset_file.lines
    /\ last_fetch' = NoFetch
    /\ rate_limiter' = RateLimiterInit(1000000, 100)
    /\ correct_schema' = CorrectSchemaTemplate
    /\ UNCHANGED <<crawlvars, exception, args, urls_file, dataset_file, existing_urls, all_urls, year,
                   offset, reset_calls, failed_fetches, stale_page_seen, last_page,
                   clock, wait_pc, wait_now, wait_backoff, schema_in, schema_out, schema_pc,
                   retryvars>>

\* the collection of an --update run, interrupted at most once
InterruptedCollectionInit ==
    MainInit([update : {TRUE}, data : {TRUE}, amount : {Amount}], InitUrlFiles, InitDatasetFiles)

InterruptedCollectionNext ==
    \/ MainStart
    \/ LoadForCollection
    \/ CollectNext
    \/ ScrapeAttempt
    \/ InterruptCollection

InterruptedCollectionSpec == InterruptedCollectionInit /\ [][InterruptedCollectionNext]_vars

\* ------------------------------------------------ provincial.py on its own
MaxCrawlYear == 3

MaxCrawlPages == 2

\* lines 17-58: --year (default: the current year) and --stop (default None,
\* written 0: `if args.stop` takes both for false); year = args.year and
\* the driver is sent to the first result page of that year. Years are
\* counted from an origin before every year of interest.
CrawlInit ==
    /\ crawl_args \in [year : 1..MaxCrawlYear, stop : 0..MaxCrawlYear]
    /\ crawl_pc = "page"
    /\ crawl_year = crawl_args.year
    /\ crawl_page = 1
    /\ shown_year = crawl_args.year
    /\ navigated = <<crawl_args.year>>
    /\ RLIdle
    /\ SchemaIdle
    /\ RetryIdle
    /\ MainIdle

\* line 166, the test that follows the last page of a year
CrawlGoesOn == crawl_args.stop <= crawl_year

\* one turn of `while True` (lines 61-191): the page loads or wait.until
\* raises (lines 64-65); its items are saved (lines 77-156); then the
\* `Next` button is clicked when it is displayed, else the year goes down
\* and driver.get is tried up to 3 times (`reached`: one try succeeded;
\* when none does the driver keeps the page it shows), or the loop ends
CrawlPage ==
    /\ crawl_pc = "page"
    /\ \E loaded, displayed, reached \in BOOLEAN :
         IF ~loaded
         THEN /\ crawl_pc' = "crashed"
              /\ UNCHANGED <<crawl_year, crawl_page, shown_year, navigated>>
         ELSE IF displayed
         THEN /\ crawl_page < MaxCrawlPages
              /\ crawl_page' = crawl_page + 1
              /\ UNCHANGED <<crawl_pc, crawl_year, shown_year, navigated>>
         ELSE IF crawl_args.stop # 0 /\ CrawlGoesOn
         THEN /\ crawl_year' = crawl_year - 1
              /\ IF reached
                 THEN /\ shown_year' = crawl_year - 1
                      /\ crawl_page' = 1
                      /\ navigated' = Append(navigated, crawl_year - 1)
                 ELSE UNCHANGED <<shown_year, crawl_page, navigated>>
              /\ UNCHANGED crawl_pc
         ELSE /\ crawl_pc' = "quit"
              /\ UNCHANGED <<crawl_year, crawl_page, shown_year, navigated>>
    /\ UNCHANGED <<crawl_args, rlvars, schemavars, retryvars, mainvars>>

CrawlNext == CrawlPage

CrawlSpec == CrawlInit /\ [][CrawlNext]_vars

AtMostOnce ==
    \A i, j \in DOMAIN dataset_file.lines :
        dataset_file.lines[i].v["guid"].v = dataset_file.lines[j].v["guid"].v => i = j

\* the minimal shape: descriptores.descriptor a list of dicts with dict
\* elegido, preferido and sinonimos (list termino), descriptores.suggest a
\* dict with list termino
MinimalShape(x) ==
    /\ IsDict(x)
    /\ HasKey(x, "descriptores")
    /\ IsDict(x.v["descriptores"])
    /\ LET ds == x.v["descriptores"] IN
       /\ HasKey(ds, "descriptor")
       /\ IsList(ds.v["descriptor"])
       /\ \A i \in DOMAIN ds.v["descriptor"].v :
            LET d == ds.v["descriptor"].v[i] IN
            /\ IsDict(d)
            /\ HasKey(d, "elegido") /\ IsDict(d.v["elegido"])
            /\ HasKey(d, "preferido") /\ IsDict(d.v["preferido"])
            /\ HasKey(d, "sinonimos") /\ IsDict(d.v["sinonimos"])
            /\ HasKey(d.v["sinonimos"], "termino") /\ IsList(d.v["sinonimos"].v["termino"])
       /\ HasKey(ds, "suggest")
       /\ IsDict(ds.v["suggest"])
       /\ HasKey(ds.v["suggest"], "termino") /\ IsList(ds.v["suggest"].v["termino"])

\* C3: enforce_schema returns on every input, and what it returns has the
\* minimal shape
EnforceSchemaTotal ==
    schema_pc \in {"returned", "raised"} =>
        /\ ~schema_out.raised
        /\ MinimalShape(schema_out.value)

\* C4: when a record is persisted after k failed attempts, reset_on_error
\* was called exactly k times during the fetch
OneFailureReportPerFailedAttempt ==
    last_fetch.persisted => last_fetch.resets = last_fetch.failures

\* C5: the wrapper calls the function at most max_retries times, sleeps
\* delay, 2*delay, 4*delay, ... once after each failed attempt but the last,
\* and a failure of the last attempt is raised with no sleep after it
RetryBounded ==
    /\ invocations <= retry_args.max_retries
    /\ sleeps # <<>> => sleeps[1] = retry_args.delay
    /\ \A i \in 1..(Len(sleeps) - 1) : sleeps[i + 1] = 2 * sleeps[i]
    /\ retry_pc = "attempting" => Len(sleeps) = invocations
    /\ (retry_pc # "attempting" /\ invocations > 0 /\ last_outcome.raised) =>
         /\ retry_pc = "raised"
         /\ retry_result = last_outcome
         /\ invocations = retry_args.max_retries
         /\ Len(sleeps) = retry_args.max_retries - 1

\* three failing attempts out of three: two sleeps, then the failure is raised
RetryBoundedWitness ==
    /\ retry_pc = "raised"
    /\ retry_args = [max_retries |-> 3, delay |-> 1]
    /\ invocations = 3
    /\ sleeps = <<1, 2>>

\* C6: when an attempt succeeds after at most max_retries - 1 failures the
\* wrapper has returned that attempt's result, and the sleeps between the
\* attempts never get shorter
RetrySucceedsAfterFailures ==
    /\ (invocations > 0 /\ ~last_outcome.raised) =>
         /\ retry_pc = "returned"
         /\ retry_result = last_outcome
         /\ Len(sleeps) = invocations - 1
    /\ \A i \in 1..(Len(sleeps) - 1) : sleeps[i] <= sleeps[i + 1]

\* two failures, then a success whose result is returned
RetrySucceedsAfterFailuresWitness ==
    /\ retry_pc = "returned"
    /\ invocations = 3
    /\ retry_result = Return(Str("r1"))
    /\ sleeps = <<2, 4>>

\* the timestamps of the window that lie within the trailing period
InWindow == {i \in DOMAIN rate_limiter.timestamps :
                 clock - rate_limiter.timestamps[i] <= rate_limiter.period}

\* C7: the window never holds more timestamps of the trailing period than
\* the current capacity
WindowWithinBudget == Cardinality(InWindow) <= rate_limiter.calls

\* the URLs of a list that come before its first known one
RECURSIVE BeforeFirstKnown(_, _)
BeforeFirstKnown(urls, known) ==
    IF urls = <<>> \/ Head(urls) \in known THEN {}
    ELSE {Head(urls)} \cup BeforeFirstKnown(Tail(urls), known)

\* C8: in update mode a first page holding a known URL ends the discovery
\* at once, and only the URLs ahead of that known one are collected
StopsAtKnownOnFirstPage ==
    (args.update /\ last_page.kind = "page" /\ last_page.offset = 0
                 /\ \E u \in Range(last_page.urls) : u \in existing_urls) =>
        /\ pc # "discover_update"
        /\ all_urls \subseteq BeforeFirstKnown(last_page.urls, existing_urls)

IsErrorPage(page) ==
    \/ page.kind \in {"transport", "undecodable"}
    \/ page.kind = "http" /\ page.status \notin {200, 500}

\* C10: the enumeration of a year ends on an error page only when the
\* attempts of the retry wrapper are used up
ErrorPageEndsYearOnlyAfterRetries ==
    (IsErrorPage(last_page) /\ last_page.ended_year) =>
        last_page.attempts = GetUrlsRetry.max_retries

\* the guids of the lines of the dataset log that are records
WellFormedGuids ==
    {dataset_file.lines[i].v["guid"].v :
        i \in {j \in DOMAIN dataset_file.lines : dataset_file.lines[j] # MalformedLine}}

\* C11: once the known guids are loaded, the load has not died of a
\* malformed line and the guid of every well-formed line is known
LoadSkipsMalformedLines ==
    pc \in {"collect", "crashed"} =>
        /\ exception # "JSONDecodeError"
        /\ pc = "collect" => WellFormedGuids \subseteq existing_guids

\* the fetch that ended last ended without a record
LastFetchFailed == last_fetch # NoFetch /\ ~last_fetch.persisted

\* ... after max_retries attempts
LastFetchExhausted ==
    LastFetchFailed /\ last_fetch.failures + 1 = ScrapeDataRetry.max_retries

\* C12: a document fetch that used up its attempts does not end the run
ExhaustedFetchIsSkipped ==
    LastFetchExhausted => pc # "crashed"

\* C13: a document fetch ends without a record only when its max_retries
\* attempts are used up: every failed attempt before that is followed by
\* another one
EveryFetchFailureIsRetried ==
    LastFetchFailed => last_fetch.failures + 1 = ScrapeDataRetry.max_retries

\* C14: at every page boundary of the discovery, and when the run dies
\* there, the URL log holds every new URL of the pages processed so far
DiscoveredUrlsAreLogged ==
    pc \in {"discover_update", "discover_backfill", "crashed"} =>
        all_urls \subseteq Range(urls_file.lines)

\* C15: a run started again after an interruption asks at most one page
\* again that the interrupted run had already been answered
ResumeRepeatsAtMostOnePage ==
    resume.again <= 1

\* C16: a discovery request answered with HTTP 500 gives the empty list
\* at the first attempt, and reset_on_error is not called
Http500IsEndOfResults ==
    (last_page.kind = "http" /\ last_page.status = 500) =>
        /\ last_page.is_list
        /\ last_page.urls = <<>>
        /\ last_page.attempts = 1
        /\ last_page.resets = 0

\* a year of the backfill ended by a 500 after a page of results
Http500IsEndOfResultsWitness ==
    /\ last_page.kind = "http"
    /\ last_page.status = 500
    /\ last_page.offset > 0
    /\ last_page.ended_year
    /\ all_urls # {}

\* a get_urls call of the backfill loop has been dealt with
BackfillPageDone == pc = "discover_backfill" /\ <<year, offset, pc>>' # <<year, offset, pc>>

\* C17: the backfill starts at the first year and offset 0; each request
\* is for the current year and offset; a page with URLs adds its unknown
\* URLs and moves the offset up by the page size within the year; a page
\* without URLs adds nothing and moves to offset 0 of the next year, or
\* ends the enumeration after the current year
BackfillEnumeration ==
    /\ [](pc = "discover_backfill" =>
            /\ year \in FirstYear..CurrentYear
            /\ last_page = NoPage => year = FirstYear /\ offset = 0)
    /\ [][BackfillPageDone =>
            /\ last_page'.year = year
            /\ last_page'.offset = offset
            /\ IF last_page'.urls # <<>>
               THEN /\ year' = year
                    /\ offset' = offset + args.amount
                    /\ pc' = pc
                    /\ all_urls' = all_urls \cup (Range(last_page'.urls) \ existing_urls)
               ELSE /\ all_urls' = all_urls
                    /\ offset' = 0
                    /\ IF year < CurrentYear THEN year' = year + 1 /\ pc' = pc
                       ELSE pc' = "save_urls"]_vars

\* the first year gave 3 URLs at offset 0 and HTTP 500 at the next offset:
\* the 3 URLs are collected and the next year begins
BackfillEnumerationWitness ==
    /\ pc = "discover_backfill"
    /\ last_page.kind = "http"
    /\ last_page.status = 500
    /\ last_page.year = FirstYear
    /\ last_page.offset = args.amount
    /\ year = FirstYear + 1
    /\ offset = 0
    /\ Cardinality(all_urls) = 3

\* C18: in the backfill a page of URLs that are all known is followed by
\* the next offset of the same year, and a year is ended only by a page
\* without URLs
BackfillVisitsKnownPages ==
    (~args.update /\ pc \in {"discover_backfill", "save_urls"} /\ last_page # NoPage) =>
        /\ (last_page.urls # <<>> /\ Range(last_page.urls) \subseteq existing_urls) =>
               /\ pc = "discover_backfill"
               /\ year = last_page.year
               /\ offset = last_page.offset + args.amount
        /\ last_page.ended_year => last_page.urls = <<>>

\* the page at offset 0 of the first year held known URLs only, and the
\* page at the next offset was requested and brought a new URL
BackfillVisitsKnownPagesWitness ==
    /\ ~args.update
    /\ pc = "discover_backfill"
    /\ stale_page_seen
    /\ existing_urls # {}
    /\ last_page.year = FirstYear
    /\ last_page.offset = args.amount
    /\ last_page.fresh # {}

\* the URL the collection loop is at
CurrentUrl == urls_to_scrape[url_index]

\* what a step of the collection loop may do
CollectionStep ==
    /\ (pc = "collect" /\ url_index <= Len(urls_to_scrape)) =>
           (IF GuidOf(CurrentUrl) \in existing_guids
            THEN IF args.update THEN pc' = "done" /\ url_index' = url_index
                 ELSE pc' = "collect" /\ url_index' = url_index + 1
            ELSE pc' = "scrape" /\ url_index' = url_index)
    /\ pc = "scrape" =>
           (\/ pc' = "scrape" /\ url_index' = url_index
            \/ /\ pc' = "collect"
               /\ url_index' = url_index + 1
               /\ last_fetch'.guid = GuidOf(CurrentUrl)
            \/ pc' = "crashed")
    /\ pc = "done" => (pc' = "done" /\ dataset_file' = dataset_file)

\* C19: the collection loop goes through the URL log from its first line
\* (backfill) or from its last line (update), one line at a time; a URL
\* whose guid is in the known set is passed over without a fetch in the
\* backfill and ends the phase in update mode, after which nothing is
\* fetched; any other URL is fetched
CollectionOrderAndStop ==
    /\ [](pc \in {"collect", "scrape"} =>
            /\ urls_to_scrape = IF args.update THEN Reverse(urls_file.lines) ELSE urls_file.lines
            /\ pc = "scrape" => GuidOf(CurrentUrl) \notin existing_guids)
    /\ [][CollectionStep]_vars

\* an update run fetched the last line of the URL log and stopped at the
\* known guid of the line before it
CollectionOrderAndStopWitness ==
    /\ args.update
    /\ pc = "done"
    /\ url_index = 2
    /\ Len(urls_to_scrape) = 2
    /\ last_fetch.guid = GuidOf(urls_file.lines[2])
    /\ GuidOf(urls_file.lines[1]) \in existing_guids

\* C20: the URL log holds no line twice
NoUrlLineTwice ==
    \A i, j \in DOMAIN urls_file.lines : urls_file.lines[i] = urls_file.lines[j] => i = j

\* an update run found new URLs on its first page and only logged URLs on
\* the next one, and has written the log
NoUrlLineTwiceWitness ==
    /\ args.update
    /\ pc = "load"
    /\ last_page.offset > 0
    /\ last_page.urls # <<>>
    /\ Range(last_page.urls) \subseteq Range(urls_file.lines)
    /\ Len(urls_file.lines) >= 2

\* a step of a run with --data leaves the URL log alone and can only add
\* lines at the end of the dataset log
DataRunStep ==
    args.data =>
        /\ urls_file' = urls_file
        /\ Len(dataset_file'.lines) >= Len(dataset_file.lines)
        /\ SubSeq(dataset_file'.lines, 1, Len(dataset_file.lines)) = dataset_file.lines

\* C21: a run with --data never asks the discovery endpoint for a page and
\* never reaches the lines that write the URL log; the URL log keeps its
\* content and the dataset log only grows at its end
CollectionOnlyRun ==
    /\ [](args.data => /\ last_page = NoPage
                       /\ pc \notin {"discover_update", "discover_backfill", "save_urls"})
    /\ [][DataRunStep]_vars

\* a run with --data has ended after adding a record to the dataset log
CollectionOnlyRunWitness ==
    /\ args.data
    /\ pc = "done"
    /\ urls_file.exists
    /\ Len(dataset_file.lines) > Len(dataset0)

\* C22: a wait() call that found the window full and has slept is released
\* once the oldest timestamp is older than the period: its loop then takes
\* the branch that drops that timestamp
WaitReleasedOnceExpired ==
    (/\ wait_pc = "loop"
     /\ wait_backoff >= 1
     /\ ~WaitHasRoom(rate_limiter)
     /\ clock - rate_limiter.timestamps[1] > rate_limiter.period)
    => WaitOldestExpired(rate_limiter, wait_now)

\* C23: the backoff factor 1.4 * 2^n, and with it the sleep
\* period * backoff_factor ** backoff of wait(), stays below the ceiling
\* 1.4 * 2^MaxDoublings however many reset_on_error() calls were made
BackoffFactorBelowCeiling ==
    14 * Pow2(rate_limiter.backoff_factor) < 14 * Pow2(MaxDoublings)

\* C24: the capacity of a RateLimiter created with calls >= 1 is at least 1
\* in every state, whatever wait() and reset_on_error() calls were made
CapacityFloor == rate_limiter.calls >= 1

\* the fifth error in a row took the capacity down twice and the floor held
CapacityFloorWitness ==
    /\ rate_limiter.calls = 1
    /\ rate_limiter.backoff_factor >= ErrorThreshold
    /\ rate_limiter.error_count = 0

\* a step of the limiter seen as the claim describes reset_on_error: the
\* factor moves only on the K-th error of a row, and an admitted request
\* ends the row
BackoffDoublingStep ==
    /\ (rate_limiter'.backoff_factor # rate_limiter.backoff_factor) =>
           /\ rate_limiter'.backoff_factor = rate_limiter.backoff_factor + 1
           /\ rate_limiter.error_count + 1 >= ErrorThreshold
    /\ (Len(rate_limiter'.timestamps) > Len(rate_limiter.timestamps)) =>
           rate_limiter'.error_count = 0

\* C25: reset_on_error() doubles the backoff factor only on every K-th
\* consecutive failure (K = 5, the threshold of line 78), and a successful
\* request between two failures restarts the count of consecutive failures
BackoffDoublesEveryKFailures == [][BackoffDoublingStep]_vars

\* a step of the limiter seen as the claim describes the additive increase
AdditiveIncreaseStep ==
    LET rl == rate_limiter
        admitted == Len(rate_limiter'.timestamps) = Len(rl.timestamps) + 1
        reached == rl.successful_requests + 1 >= SuccessStreakThreshold
    IN /\ (rate_limiter'.successful_requests > rl.successful_requests) => admitted
       /\ (rate_limiter'.calls > rl.calls) <=> (admitted /\ reached)
       /\ (admitted /\ reached) =>
              /\ rate_limiter'.calls = rl.calls + 1
              /\ rate_limiter'.successful_requests = 0

\* C26: the capacity grows by exactly one when the count of successful
\* requests since the last failure or increase reaches 10 and the count
\* then restarts at 0; only an admitted request adds to the count
AdditiveIncrease == [][AdditiveIncreaseStep]_vars

\* the delay is inside [0.1, max_delay], the construction parameters are the
\* defaults, and at most one of the two streaks is running
AdaptiveInvariant ==
    LET a == rate_limiter.adaptive_limiter IN
    /\ a.max_delay = Frac(5, 1)
    /\ a.backoff_factor = Frac(3, 2)
    /\ ~FracLess(a.delay, Frac(1, 10))
    /\ ~FracLess(a.max_delay, a.delay)
    /\ a.success_streak = 0 \/ a.failure_streak = 0

\* what one success() or failure() call does to the delay
AdaptiveStep ==
    LET a == rate_limiter.adaptive_limiter
        b == rate_limiter'.adaptive_limiter
    IN IF b.failure_streak = a.failure_streak + 1
       THEN /\ ~FracLess(b.delay, a.delay)
            /\ FracLess(a.delay, a.max_delay) => FracLess(a.delay, b.delay)
       ELSE /\ ~FracLess(a.delay, b.delay)
            /\ FracLess(b.delay, a.delay) =>
                   (a.success_streak + 1 = SuccessStreakThreshold /\ b.success_streak = 0)

\* C27: an AdaptiveRateLimiter built with the defaults starts at delay 0.1
\* and keeps its delay within [0.1, max_delay]; failure() never lowers the
\* delay and raises it while it is below max_delay; success() never raises
\* it and lowers it only on the 10th success of a row; the two streaks are
\* never both non-zero
AdaptiveDelayWithinBounds ==
    /\ rate_limiter.adaptive_limiter = AdaptiveRateLimiterInit
    /\ []AdaptiveInvariant
    /\ [][AdaptiveStep]_vars

\* the delay went up to max_delay and a row of 10 successes took it down
\* to 5.0 / 1.5
AdaptiveDelayWithinBoundsWitness ==
    /\ rate_limiter.adaptive_limiter.delay = Frac(10, 3)
    /\ rate_limiter.adaptive_limiter.success_streak = 0
    /\ rate_limiter.adaptive_limiter.failure_streak = 0

\* C28: enforce_schema applied to a value it returned returns that value
\* again; the template it substitutes and an input of the expected shape
\* come back unchanged from the first call already
EnforceSchemaIdempotent ==
    /\ schema_pc \in {"returned_again", "raised_again"} =>
          (~schema_out.raised /\ schema_out.value = schema_in)
    /\ (schema_pc = "returned" /\ MinimalShape(schema_in)) => schema_out.value = schema_in
    /\ (~enforce_schema(correct_schema).raised /\ enforce_schema(correct_schema).value = correct_schema)

\* the first call put a bare string of `sinonimos` into a list, and the
\* second call was made on that result
EnforceSchemaIdempotentWitness ==
    /\ schema_pc = "returned_again"
    /\ schema_in # correct_schema
    /\ MinimalShape(schema_in)
    /\ schema_in.v["descriptores"].v["descriptor"].v # <<>>
    /\ schema_in.v["descriptores"].v["descriptor"].v[1].v["sinonimos"].v["termino"]
          = List(<<Str("x")>>)

\* C29: when an --update collection was interrupted after some of the new
\* URLs got their record and the run started after it has ended with every
\* fetch answered by a document, every URL of the log has a record
UpdateCompletesAfterInterruption ==
    (resume.restarted /\ pc = "done" /\ failed_fetches = 0) =>
        \A i \in DOMAIN urls_file.lines :
            GuidOf(urls_file.lines[i]) \in GuidsIn(dataset_file.lines)

\* C30: a crawl started at year Y with --stop S, S <= Y, sends the driver
\* to years in descending order and to no year before S, and ends on a page
\* of year S; without --stop it visits year Y only
CrawlStopsAtStopYear ==
    LET Y == crawl_args.year
        S == crawl_args.stop
    IN /\ \A i \in DOMAIN navigated : i > 1 => navigated[i] < navigated[i - 1]
       /\ (S # 0 /\ S <= Y) => \A i \in DOMAIN navigated : navigated[i] >= S
       /\ (crawl_pc = "quit" /\ S # 0 /\ S <= Y) => shown_year = S
       /\ (crawl_pc = "quit" /\ S = 0) => navigated = <<Y>>

====
